---- MODULE Spec2Model ----
(***************************************************************************)
(* The server-side session core of the ANARI remote device                 *)
(* (libs/remote_device/Server.cpp): the resource manager, the message      *)
(* dispatcher Server::handleMessage, and the outbound work queue.          *)
(*                                                                         *)
(* C++ vectors are 0-indexed; a vector v is modelled as a sequence whose   *)
(* element i is v[i + 1].  Backend references (pointers) are naturals,     *)
(* with 0 the null pointer.                                                *)
(***************************************************************************)
EXTENDS Integers, Sequences, FiniteSets, TLC

\* ------------------------------------------------------------------ bounds
MaxDevices == 2
MaxObjectHandle == 1

\* nullptr, as a device, an object and a pointer.
NULL == 0

\* The handles the modelled client sends: 0 and MaxDevices + 1 name no device.
DeviceHandles == 0..(MaxDevices + 1)
ObjectHandles == 0..MaxObjectHandle

\* ------------------------------------------------------- vectors (0-indexed)
At(v, i) == v[i + 1]

Resize(v, n, value) ==
  [i \in 1..n |-> IF i <= Len(v) THEN v[i] ELSE value]

Put(v, i, value) == [v EXCEPT ![i + 1] = value]

Max(a, b) == IF a >= b THEN a ELSE b

\* --------------------------------------------------------------- data types
ConstructorTypes ==
  {"ANARI_LIGHT", "ANARI_CAMERA", "ANARI_GEOMETRY", "ANARI_SPATIAL_FIELD",
   "ANARI_SURFACE", "ANARI_VOLUME", "ANARI_MATERIAL", "ANARI_SAMPLER",
   "ANARI_GROUP", "ANARI_INSTANCE", "ANARI_WORLD", "ANARI_FRAME",
   "ANARI_RENDERER"}

ArrayTypes == {"ANARI_ARRAY1D", "ANARI_ARRAY2D", "ANARI_ARRAY3D"}

isObject(type) == type \in ConstructorTypes \cup ArrayTypes \cup {"ANARI_DEVICE"}

sizeOf(type) ==
  CASE type = "ANARI_UFIXED8_RGBA_SRGB" -> 4
    [] type = "ANARI_FLOAT32" -> 4
    [] type = "ANARI_UINT8" -> 1
    [] isObject(type) -> 8
    [] OTHER -> 0

ServerObjectDefault ==
  [device |-> NULL, handle |-> NULL, type |-> "ANARI_UNKNOWN"]

ArrayInfoDefault ==
  [type |-> "ANARI_UNKNOWN", elementType |-> "ANARI_UNKNOWN",
   numItems1 |-> 0, numItems2 |-> 0, numItems3 |-> 0]

getSizeInBytes(info) ==
  sizeOf(info.elementType) * info.numItems1 * Max(1, info.numItems2)
    * Max(1, info.numItems3)

\* --------------------------------------------------------- ResourceManager
ResourceManagerInit ==
  [nextDeviceHandle |-> 1, anariDevices |-> <<>>, serverObjects |-> <<>>,
   serverArrays |-> <<>>]

\* registerDevice without the post-increment of nextDeviceHandle.
registerDeviceNoIncrement(rm, dev) ==
  LET handle == rm.nextDeviceHandle
      newNumHandles == Max(Len(rm.anariDevices), handle + 1)
  IN [rm |-> [nextDeviceHandle |-> rm.nextDeviceHandle,
              anariDevices |->
                Put(Resize(rm.anariDevices, newNumHandles, NULL), handle, dev),
              serverObjects |-> Resize(rm.serverObjects, newNumHandles, <<>>),
              serverArrays |-> Resize(rm.serverArrays, newNumHandles, <<>>)],
      handle |-> handle]

registerDevice(rm, dev) ==
  LET handle == rm.nextDeviceHandle
      newNumHandles == Max(Len(rm.anariDevices), handle + 1)
  IN [rm |-> [nextDeviceHandle |-> rm.nextDeviceHandle + 1,
              anariDevices |->
                Put(Resize(rm.anariDevices, newNumHandles, NULL), handle, dev),
              serverObjects |-> Resize(rm.serverObjects, newNumHandles, <<>>),
              serverArrays |-> Resize(rm.serverArrays, newNumHandles, <<>>)],
      handle |-> handle]

\* registerObject that clears the device's table before it resizes it.
registerObjectClearing(rm, deviceID, objectID, anariObj, type) ==
  LET newNumHandles == Max(Len(At(rm.serverObjects, deviceID)), objectID + 1)
      objects == Resize(<<>>, newNumHandles, ServerObjectDefault)
  IN [rm EXCEPT !.serverObjects =
        Put(rm.serverObjects, deviceID,
            Put(objects, objectID,
                [device |-> At(rm.anariDevices, deviceID),
                 handle |-> anariObj, type |-> type]))]

registerObject(rm, deviceID, objectID, anariObj, type) ==
  LET newNumHandles == Max(Len(At(rm.serverObjects, deviceID)), objectID + 1)
      objects == Resize(At(rm.serverObjects, deviceID), newNumHandles,
                        ServerObjectDefault)
  IN [rm EXCEPT !.serverObjects =
        Put(rm.serverObjects, deviceID,
            Put(objects, objectID,
                [device |-> At(rm.anariDevices, deviceID),
                 handle |-> anariObj, type |-> type]))]

\* registerArray that grows the array table and forgets to store info.
registerArrayNoInfo(rm, deviceID, objectID, anariObj, info) ==
  LET rm1 == registerObject(rm, deviceID, objectID, anariObj, info.type)
      newNumHandles == Max(Len(At(rm1.serverArrays, deviceID)), objectID + 1)
      arrays == Resize(At(rm1.serverArrays, deviceID), newNumHandles,
                       ArrayInfoDefault)
  IN [rm1 EXCEPT !.serverArrays = Put(rm1.serverArrays, deviceID, arrays)]

registerArray(rm, deviceID, objectID, anariObj, info) ==
  LET rm1 == registerObject(rm, deviceID, objectID, anariObj, info.type)
      newNumHandles == Max(Len(At(rm1.serverArrays, deviceID)), objectID + 1)
      arrays == Resize(At(rm1.serverArrays, deviceID), newNumHandles,
                       ArrayInfoDefault)
  IN [rm1 EXCEPT !.serverArrays =
        Put(rm1.serverArrays, deviceID, Put(arrays, objectID, info))]

\* getDevice with the range test off by one: the read one behind the end of
\* the table yields a stray non-null pointer.
getDeviceOffByOne(rm, deviceID) ==
  IF deviceID > Len(rm.anariDevices) THEN NULL
  ELSE IF deviceID = Len(rm.anariDevices) THEN 1
  ELSE At(rm.anariDevices, deviceID)

getDevice(rm, deviceID) ==
  IF deviceID >= Len(rm.anariDevices) THEN NULL
  ELSE At(rm.anariDevices, deviceID)

getServerObject(rm, deviceHandle, objectHandle) ==
  IF deviceHandle >= Len(rm.serverObjects)
       \/ objectHandle >= Len(At(rm.serverObjects, deviceHandle))
  THEN ServerObjectDefault
  ELSE At(At(rm.serverObjects, deviceHandle), objectHandle)

getArrayInfo(rm, deviceHandle, objectHandle) ==
  IF deviceHandle >= Len(rm.serverArrays)
       \/ objectHandle >= Len(At(rm.serverArrays, deviceHandle))
  THEN ArrayInfoDefault
  ELSE At(At(rm.serverArrays, deviceHandle), objectHandle)


\* ------------------------------------------------------------- the backend
\* One call of the rendering backend, as the handlers make it: the function,
\* the device and object references passed, and the other arguments (a record).
Call(fn, dev, obj, arg) == [fn |-> fn, dev |-> dev, obj |-> obj, arg |-> arg]

NoArg == [none |-> TRUE]

NewFn(type) ==
  CASE type = "ANARI_LIGHT" -> "anariNewLight"
    [] type = "ANARI_CAMERA" -> "anariNewCamera"
    [] type = "ANARI_GEOMETRY" -> "anariNewGeometry"
    [] type = "ANARI_SPATIAL_FIELD" -> "anariNewSpatialField"
    [] type = "ANARI_SURFACE" -> "anariNewSurface"
    [] type = "ANARI_VOLUME" -> "anariNewVolume"
    [] type = "ANARI_MATERIAL" -> "anariNewMaterial"
    [] type = "ANARI_SAMPLER" -> "anariNewSampler"
    [] type = "ANARI_GROUP" -> "anariNewGroup"
    [] type = "ANARI_INSTANCE" -> "anariNewInstance"
    [] type = "ANARI_WORLD" -> "anariNewWorld"
    [] type = "ANARI_FRAME" -> "anariNewFrame"
    [] type = "ANARI_RENDERER" -> "anariNewRenderer"
    [] OTHER -> "none"

\* r is the reference the backend constructor returns (0: null).
newObject(dev, type, r) ==
  IF type \in ConstructorTypes
  THEN [obj |-> r, calls |-> <<Call(NewFn(type), dev, NULL, NoArg)>>]
  ELSE [obj |-> NULL, calls |-> <<>>]

NewArrayFn(type) ==
  CASE type = "ANARI_ARRAY1D" -> "anariNewArray1D"
    [] type = "ANARI_ARRAY2D" -> "anariNewArray2D"
    [] type = "ANARI_ARRAY3D" -> "anariNewArray3D"
    [] OTHER -> "none"

\* data is <<>> for a null pointer, else <<bytes>> with the buffer to copy.
newArray(dev, info, data, r) ==
  LET array == IF info.type \in ArrayTypes THEN r ELSE NULL
      create == IF info.type \in ArrayTypes
                THEN <<Call(NewArrayFn(info.type), dev, NULL,
                             [info |-> info, ret |-> r])>>
                ELSE <<>>
      fill == IF array # NULL /\ data # <<>>
              THEN <<Call("anariMapArray", dev, array, NoArg),
                     Call("memcpy", dev, array, [bytes |-> data[1]]),
                     Call("anariUnmapArray", dev, array, NoArg)>>
              ELSE <<>>
  IN [obj |-> array, calls |-> create \o fill]

\* The arrays the backend has mapped after the call c, from those it had
\* mapped before: anariMapArray maps, anariUnmapArray unmaps, and the array a
\* constructor returns is new, so not mapped.
afterCall(m, c) ==
  CASE c.fn = "anariMapArray" -> m \cup {c.obj}
    [] c.fn = "anariUnmapArray" -> m \ {c.obj}
    [] c.fn \in {"anariNewArray1D", "anariNewArray2D", "anariNewArray3D"} ->
         m \ {c.arg.ret}
    [] OTHER -> m

RECURSIVE afterCalls(_, _)
afterCalls(m, calls) ==
  IF calls = <<>> THEN m
  ELSE afterCalls(afterCall(m, Head(calls)), Tail(calls))

\* ------------------------------------------------------------------- state
VARIABLES
  resourceManager,  \* Server::resourceManager
  client,           \* Server::client
  serverFeatures,   \* what getCompressionFeatures() returns in this build
  conn,             \* Server::conn: the connection accepted last (0: none)
  stopped,          \* manager->stop() was called
  thrown,           \* an exception left handleMessage
  queue,            \* Server::queue: the posted send-tasks not yet run
  wire,             \* the conn->write calls made so far, in order
  pc,               \* position of the inbound context inside handleMessage
  frame,            \* the locals of RenderFrame between its two channels
  nreq,             \* history: number of requests dispatched
  last,             \* history: the request dispatched last, its backend calls
                    \*          and its posts
  posted,           \* history: every Server::write call made, in order
  devReg,           \* history: <<handle returned, device stored>> of every
                    \*          registerDevice call
  lastReg,          \* history: the last registration at each (device, object)
  bound,            \* the numbers of requests and connections explored
  arrays,           \* the backend: the memory of the array behind each
                    \*              reference
  mapped,           \* the backend: the references of the arrays that are
                    \*              mapped
  m_params          \* ParameterizedObject::m_params

vars == <<resourceManager, client, serverFeatures, conn, stopped, thrown,
          queue, wire, pc, frame, nreq, last, posted, devReg, lastReg, bound,
          arrays, mapped, m_params>>

\* The references the backend hands out.
BackendRefs == 1..2

\* The memory of a backend array nothing was copied into.
Fresh == [written |-> FALSE]

\* The memory of a backend array after a memcpy of bytes through its mapped
\* pointer, made by the request kind for the array at (d, o).
Written(bytes, kind, d, o) ==
  [written |-> TRUE, bytes |-> bytes, by |-> kind, dev |-> d, obj |-> o]

\* What the reader of numBytes bytes at a mapped pointer gets: n elements.
Indeterminate == [indeterminate |-> TRUE]

ReadMapped(mem, n) ==
  IF n = 0 THEN <<>>
  ELSE IF mem.written /\ Len(mem.bytes) >= n THEN SubSeq(mem.bytes, 1, n)
  ELSE Indeterminate

NoFrame == [dev |-> NULL, frame |-> NULL, objectHandle |-> 0]

NoRequest ==
  [kind |-> "none", dev |-> 0, obj |-> 0, calls |-> <<>>, posts |-> <<>>]

Pairs == (1..MaxDevices) \X ObjectHandles

\* CompressionFeatures: lossy image compression (TurboJPEG) and lossless byte
\* compression (SNAPPY).
Features == [hasTurboJPEG : BOOLEAN, hasSNAPPY : BOOLEAN]

NoCompression == [hasTurboJPEG |-> FALSE, hasSNAPPY |-> FALSE]

AllCompression == [hasTurboJPEG |-> TRUE, hasSNAPPY |-> TRUE]

\* The server after construction, in a build with the compression features cf.
Start(cf, requests, connections) ==
  /\ bound = [requests |-> requests, connections |-> connections]
  /\ resourceManager = ResourceManagerInit
  /\ client = [compression |-> NoCompression]
  /\ serverFeatures = cf
  /\ conn = 0
  /\ stopped = FALSE
  /\ thrown = FALSE
  /\ queue = <<>>
  /\ wire = <<>>
  /\ pc = "idle"
  /\ frame = NoFrame
  /\ nreq = 0
  /\ last = NoRequest
  /\ posted = <<>>
  /\ devReg = {}
  /\ lastReg = [p \in Pairs |-> [by |-> "none"]]
  /\ arrays = [r \in BackendRefs |-> Fresh]
  /\ mapped = {}
  /\ m_params = <<>>

\* ------------------------------------------------------- the outbound queue
post(q, task) == Append(q, task)

front(q) == Head(q)

pop(q) == Tail(q)

\* Server::write with one buffer shared by all responses: the tasks still
\* queued then send what was written into it last.
writeSharedBuffer(q, msg) == post([i \in DOMAIN q |-> msg], msg)

\* Server::write that puts the task at the head of the queue.
writeFront(q, msg) == <<msg>> \o q

\* Server::write: bind writeImpl(type, buf) and post it.
write(q, msg) == post(q, msg)

\* A writeImpl that returns without writing.
writeImplSkipped(w, c, msg) == w

\* Server::writeImpl, run by the queue's thread: one framed write on conn.
writeImpl(w, c, msg) == Append(w, [conn |-> c, msg |-> msg])

\* Server::run started queue.run_in_thread(): the queue's thread takes the
\* oldest task and runs it.
\* A queue thread that takes the task posted last.
runLast ==
  /\ queue # <<>>
  /\ wire' = writeImpl(wire, conn, queue[Len(queue)])
  /\ queue' = SubSeq(queue, 1, Len(queue) - 1)
  /\ UNCHANGED <<resourceManager, client, serverFeatures, conn, stopped,
                 thrown, pc, frame, nreq, last, posted, devReg, lastReg, bound,
                 arrays, mapped, m_params>>

run ==
  /\ queue # <<>>
  /\ wire' = writeImpl(wire, conn, front(queue))
  /\ queue' = pop(queue)
  /\ UNCHANGED <<resourceManager, client, serverFeatures, conn, stopped,
                 thrown, pc, frame, nreq, last, posted, devReg, lastReg, bound,
                 arrays, mapped, m_params>>

\* --------------------------------------------------------- the accept path
handleNewConnection(e) ==
  /\ ~stopped /\ ~thrown /\ pc = "idle"
  /\ IF e
     THEN stopped' = TRUE /\ conn' = conn
     ELSE conn < bound.connections /\ conn' = conn + 1 /\ stopped' = stopped
  /\ UNCHANGED <<resourceManager, client, serverFeatures, thrown, queue, wire,
                 pc, frame, nreq, last, posted, devReg, lastReg, bound,
                 arrays, mapped, m_params>>
\* ------------------------------------------------------------ handleMessage
\* A message can be delivered to handleMessage: a connection was accepted, the
\* connection manager runs, and the inbound context is between two messages.
Inbound ==
  /\ ~stopped /\ ~thrown /\ pc = "idle"
  /\ conn # 0
  /\ nreq < bound.requests

\* A response buffer; req (history) is the number of the request it answers
\* and from (history) the connection that request was received on.
Msg(type, handle, data) ==
  [type |-> type, handle |-> handle, data |-> data, req |-> nreq + 1,
   from |-> conn]

\* History of one dispatch.
Record(kind, d, o, calls, msgs) ==
  /\ nreq' = nreq + 1
  /\ mapped' = afterCalls(mapped, calls)
  /\ last' = [kind |-> kind, dev |-> d, obj |-> o, calls |-> calls,
              posts |-> msgs]
  /\ posted' = posted \o msgs

\* History of one dispatch of a request that may carry an array payload:
\* sent is <<>>, or <<elements>> as they arrived.
Copied(kind, d, o, calls, msgs, sent) ==
  /\ nreq' = nreq + 1
  /\ mapped' = afterCalls(mapped, calls)
  /\ last' = [kind |-> kind, dev |-> d, obj |-> o, calls |-> calls,
              posts |-> msgs, sent |-> sent]
  /\ posted' = posted \o msgs

\* The handler returned early: nothing but the log line.
\* The early return with the manager->stop() of the comment switched on.
DroppedStopping(kind, d, o) ==
  /\ Record(kind, d, o, <<>>, <<>>)
  /\ stopped' = TRUE
  /\ UNCHANGED <<resourceManager, client, serverFeatures, conn,
                 thrown, queue, wire, pc, frame, devReg, lastReg, bound,
                 arrays, m_params>>

Dropped(kind, d, o) ==
  /\ Record(kind, d, o, <<>>, <<>>)
  /\ UNCHANGED <<resourceManager, client, serverFeatures, conn, stopped,
                 thrown, queue, wire, pc, frame, devReg, lastReg, bound,
                 arrays, m_params>>

\* A handler that acknowledges its backend calls to the client.
CalledAcknowledged(kind, d, o, calls) ==
  /\ queue' = write(queue, Msg("Acknowledged", o, [none |-> TRUE]))
  /\ Record(kind, d, o, calls, <<Msg("Acknowledged", o, [none |-> TRUE])>>)
  /\ UNCHANGED <<resourceManager, client, serverFeatures, conn, stopped,
                 thrown, wire, pc, frame, devReg, lastReg, bound,
                 arrays, m_params>>

\* The handler made backend calls only.
Called(kind, d, o, calls) ==
  /\ Record(kind, d, o, calls, <<>>)
  /\ UNCHANGED <<resourceManager, client, serverFeatures, conn, stopped,
                 thrown, queue, wire, pc, frame, devReg, lastReg, bound,
                 arrays, m_params>>

\* The handler made backend calls and posted one response.
Answered(kind, d, o, calls, msg) ==
  /\ queue' = write(queue, msg)
  /\ Record(kind, d, o, calls, <<msg>>)
  /\ UNCHANGED <<resourceManager, client, serverFeatures, conn, stopped,
                 thrown, wire, pc, frame, devReg, lastReg, bound,
                 arrays, m_params>>

handleMessageError ==
  /\ ~stopped /\ ~thrown /\ pc = "idle"
  /\ conn # 0
  /\ stopped' = TRUE
  /\ UNCHANGED <<resourceManager, client, serverFeatures, conn, thrown, queue,
                 wire, pc, frame, nreq, last, posted, devReg, lastReg, bound,
                 arrays, mapped, m_params>>

\* reason != Read: the completion of a write.
handleMessageWritten ==
  /\ ~stopped /\ ~thrown /\ pc = "idle"
  /\ conn # 0
  /\ UNCHANGED vars

NewDevice(features, r) ==
  /\ Inbound
  /\ resourceManager.nextDeviceHandle <= MaxDevices
  /\ LET reg == registerDevice(resourceManager, r)
         msg == Msg("DeviceHandle", reg.handle, [cf |-> serverFeatures])
     IN /\ client' = [compression |-> features]
        /\ resourceManager' = reg.rm
        /\ queue' = write(queue, msg)
        /\ devReg' = devReg \cup {<<reg.handle, r>>}
        /\ Record("NewDevice", reg.handle, 0,
                  <<Call("anariNewDevice", NULL, NULL, NoArg)>>, <<msg>>)
  /\ UNCHANGED <<serverFeatures, conn, stopped, thrown, wire, pc, frame,
                 lastReg, bound,
                 arrays, m_params>>

NewObject(d, o, type, r) ==
  /\ Inbound
  /\ LET dev == getDevice(resourceManager, d)
         made == newObject(dev, type, r)
     IN IF dev = NULL
        THEN Dropped("NewObject", d, o)
        ELSE /\ resourceManager' =
                  registerObject(resourceManager, d, o, made.obj, type)
             /\ lastReg' = [lastReg EXCEPT ![<<d, o>>] =
                  [by |-> "registerObject", handle |-> made.obj,
                   type |-> type]]
             /\ Record("NewObject", d, o, made.calls, <<>>)
             /\ UNCHANGED <<client, serverFeatures, conn, stopped, thrown,
                            queue, wire, pc, frame, devReg, bound,
                            arrays, m_params>>

numObjects(info) ==
  info.numItems1 * Max(1, info.numItems2) * Max(1, info.numItems3)

\* translateArrayData that hands the client's handles to the backend as they
\* are.
translateArrayDataUntranslated(rm, payload, d, info, junk) == payload

\* payload holds one value per element: a client handle when the element type
\* is an object type.  junk is what a read behind the end of the device's
\* object table yields.
translateArrayData(rm, payload, d, info, junk) ==
  IF isObject(info.elementType)
  THEN LET serverObjects == At(rm.serverObjects, d)
       IN [i \in 1..Len(payload) |->
             IF i <= numObjects(info)
             THEN IF payload[i] < Len(serverObjects)
                  THEN At(serverObjects, payload[i]).handle
                  ELSE junk
             ELSE payload[i]]
  ELSE payload

\* The payloads a client may append for an array described by info, with
\* the elements drawn from elems.
Payloads(info, elems) == [1..numObjects(info) -> elems]

\* payload is <<>> when the message ends after the header, else <<elements>>.
NewArray(d, o, info, payload, r, junk) ==
  /\ Inbound
  /\ LET dev == getDevice(resourceManager, d)
         arrayData == IF payload # <<>>
                      THEN translateArrayData(resourceManager, payload[1], d,
                                              info, junk)
                      ELSE <<>>
         made == newArray(dev, info,
                          IF arrayData = <<>> THEN <<>> ELSE <<arrayData>>, r)
     IN IF dev = NULL
        THEN Dropped("NewArray", d, o)
        ELSE /\ resourceManager' =
                  registerArray(resourceManager, d, o, made.obj, info)
             /\ lastReg' = [lastReg EXCEPT ![<<d, o>>] =
                  [by |-> "registerArray", handle |-> made.obj,
                   type |-> info.type, info |-> info, sent |-> payload]]
             /\ arrays' =
                  IF made.obj = NULL THEN arrays
                  ELSE [arrays EXCEPT ![made.obj] =
                          IF arrayData = <<>> THEN Fresh
                          ELSE Written(arrayData, "NewArray", d, o)]
             /\ Copied("NewArray", d, o, made.calls, <<>>, payload)
             /\ UNCHANGED <<client, serverFeatures, conn, stopped, thrown,
                            queue, wire, pc, frame, devReg, bound,
                 m_params>>

\* The common prologue of the handlers that take {deviceHandle, objectHandle}:
\* both lookups, and the test `!dev || !serverObj.handle`.
Invalid(d, o) ==
  \/ getDevice(resourceManager, d) = NULL
  \/ getServerObject(resourceManager, d, o).handle = NULL

\* value is the 64-bit handle (or the POD bytes) of the message; junk is what
\* the backend reads through a pointer behind the end of the object table.
SetParam(d, o, parmType, value, junk) ==
  /\ Inbound
  /\ LET dev == getDevice(resourceManager, d)
         serverObj == getServerObject(resourceManager, d, o)
         serverObjects == At(resourceManager.serverObjects, d)
         ref == IF value < Len(serverObjects)
                THEN At(serverObjects, value).handle
                ELSE junk
     IN IF Invalid(d, o)
        THEN Dropped("SetParam", d, o)
        ELSE IF isObject(parmType)
             THEN Called("SetParam", d, o,
                    <<Call("anariSetParameter", dev, serverObj.handle,
                           [type |-> parmType, object |-> ref])>>)
             ELSE Called("SetParam", d, o,
                    <<Call("anariSetParameter", dev, serverObj.handle,
                           [type |-> parmType, bytes |-> value])>>)

UnsetParam(d, o) ==
  /\ Inbound
  /\ LET dev == getDevice(resourceManager, d)
         serverObj == getServerObject(resourceManager, d, o)
     IN IF Invalid(d, o)
        THEN Dropped("UnsetParam", d, o)
        ELSE Called("UnsetParam", d, o,
               <<Call("anariUnsetParameter", dev, serverObj.handle, NoArg)>>)

UnsetAllParams(d, o) ==
  /\ Inbound
  /\ LET dev == getDevice(resourceManager, d)
         serverObj == getServerObject(resourceManager, d, o)
     IN IF Invalid(d, o)
        THEN Dropped("UnsetAllParams", d, o)
        ELSE Called("UnsetAllParams", d, o,
               <<Call("anariUnsetAllParameters", dev, serverObj.handle,
                      NoArg)>>)

\* oneHandle: message->size() == sizeof(Handle); o is then not in the message.
\* sizeof(Handle): a handle is a 64-bit integer.
HandleSize == 8

\* One CommitParams dispatch in the history: size is message->size().
Committed(kind, size, d, o, calls) ==
  /\ nreq' = nreq + 1
  /\ mapped' = afterCalls(mapped, calls)
  /\ last' = [kind |-> kind, size |-> size, dev |-> d, obj |-> o,
              calls |-> calls, posts |-> <<>>]
  /\ UNCHANGED <<resourceManager, client, serverFeatures, conn, stopped,
                 thrown, queue, wire, pc, frame, posted, devReg, lastReg,
                 bound,
                 arrays, m_params>>

\* CommitParams that takes every body that is not exactly two handles as the
\* device variant.
CommitParamsNotTwoHandles(size, d, o) ==
  /\ Inbound
  /\ LET dev == getDevice(resourceManager, d)
         serverObj == getServerObject(resourceManager, d, o)
     IN IF size # 2 * HandleSize
        THEN IF dev = NULL
             THEN Committed("CommitParams", size, d, 0, <<>>)
             ELSE Committed("CommitParams", size, d, 0,
                    <<Call("anariCommitParameters", dev, dev, NoArg)>>)
        ELSE IF Invalid(d, o)
             THEN Committed("CommitParamsObject", size, d, o, <<>>)
             ELSE Committed("CommitParamsObject", size, d, o,
                    <<Call("anariCommitParameters", dev, serverObj.handle,
                           NoArg)>>)

\* size is message->size(); d and o are what the reads of the body yield.
CommitParams(size, d, o) ==
  /\ Inbound
  /\ LET dev == getDevice(resourceManager, d)
         serverObj == getServerObject(resourceManager, d, o)
     IN IF size = HandleSize
        THEN IF dev = NULL
             THEN Committed("CommitParams", size, d, 0, <<>>)
             ELSE Committed("CommitParams", size, d, 0,
                    <<Call("anariCommitParameters", dev, dev, NoArg)>>)
        ELSE IF Invalid(d, o)
             THEN Committed("CommitParamsObject", size, d, o, <<>>)
             ELSE Committed("CommitParamsObject", size, d, o,
                    <<Call("anariCommitParameters", dev, serverObj.handle,
                           NoArg)>>)

Release(d, o) ==
  /\ Inbound
  /\ LET dev == getDevice(resourceManager, d)
         serverObj == getServerObject(resourceManager, d, o)
     IN IF Invalid(d, o)
        THEN Dropped("Release", d, o)
        ELSE Called("Release", d, o,
               <<Call("anariRelease", dev, serverObj.handle, NoArg)>>)

Retain(d, o) ==
  /\ Inbound
  /\ LET dev == getDevice(resourceManager, d)
         serverObj == getServerObject(resourceManager, d, o)
     IN IF Invalid(d, o)
        THEN Dropped("Retain", d, o)
        ELSE Called("Retain", d, o,
               <<Call("anariRetain", dev, serverObj.handle, NoArg)>>)

\* numBytes bytes are n elements of the array's element type.
numElements(info, numBytes) ==
  IF sizeOf(info.elementType) = 0 THEN 0
  ELSE numBytes \div sizeOf(info.elementType)

\* MapArray that sends as many bytes as the array has elements.
MapArrayElementCount(d, o) ==
  /\ Inbound
  /\ LET dev == getDevice(resourceManager, d)
         serverObj == getServerObject(resourceManager, d, o)
         info == getArrayInfo(resourceManager, d, o)
         numBytes == numObjects(info)
     IN IF Invalid(d, o)
        THEN Dropped("MapArray", d, o)
        ELSE Answered("MapArray", d, o,
               <<Call("anariMapArray", dev, serverObj.handle, NoArg)>>,
               Msg("ArrayMapped", o,
                   [numBytes |-> numBytes,
                    bytes |-> ReadMapped(arrays[serverObj.handle],
                                         numElements(info, numBytes))]))

MapArray(d, o) ==
  /\ Inbound
  /\ LET dev == getDevice(resourceManager, d)
         serverObj == getServerObject(resourceManager, d, o)
         info == getArrayInfo(resourceManager, d, o)
         numBytes == getSizeInBytes(info)
     IN IF Invalid(d, o)
        THEN Dropped("MapArray", d, o)
        ELSE Answered("MapArray", d, o,
               <<Call("anariMapArray", dev, serverObj.handle, NoArg)>>,
               Msg("ArrayMapped", o,
                   [numBytes |-> numBytes,
                    bytes |-> ReadMapped(arrays[serverObj.handle],
                                         numElements(info, numBytes))]))

\* UnmapArray that copies through the pointer the client's MapArray left
\* mapped, and unmaps once.
UnmapArrayOnce(d, o, payload, junk) ==
  /\ Inbound
  /\ LET dev == getDevice(resourceManager, d)
         serverObj == getServerObject(resourceManager, d, o)
         info == getArrayInfo(resourceManager, d, o)
         arrayData == IF payload # <<>>
                      THEN translateArrayData(resourceManager, payload[1], d,
                                              info, junk)
                      ELSE <<>>
         copy == IF payload # <<>>
                 THEN <<Call("memcpy", dev, serverObj.handle,
                             [bytes |-> arrayData])>>
                 ELSE <<>>
         msg == Msg("ArrayUnmapped", o, [none |-> TRUE])
     IN IF Invalid(d, o)
        THEN Dropped("UnmapArray", d, o)
        ELSE /\ arrays' =
                  IF payload = <<>> THEN arrays
                  ELSE [arrays EXCEPT ![serverObj.handle] =
                          Written(arrayData, "UnmapArray", d, o)]
             /\ queue' = write(queue, msg)
             /\ Copied("UnmapArray", d, o,
                  copy
                  \o <<Call("anariUnmapArray", dev, serverObj.handle, NoArg)>>,
                  <<msg>>, payload)
             /\ UNCHANGED <<resourceManager, client, serverFeatures, conn,
                            stopped, thrown, wire, pc, frame, devReg, lastReg,
                            bound, m_params>>

UnmapArray(d, o, payload, junk) ==
  /\ Inbound
  /\ LET dev == getDevice(resourceManager, d)
         serverObj == getServerObject(resourceManager, d, o)
         info == getArrayInfo(resourceManager, d, o)
         arrayData == IF payload # <<>>
                      THEN translateArrayData(resourceManager, payload[1], d,
                                              info, junk)
                      ELSE <<>>
         copy == IF payload # <<>>
                 THEN <<Call("memcpy", dev, serverObj.handle,
                             [bytes |-> arrayData])>>
                 ELSE <<>>
         msg == Msg("ArrayUnmapped", o, [none |-> TRUE])
     IN IF Invalid(d, o)
        THEN Dropped("UnmapArray", d, o)
        ELSE /\ arrays' =
                  IF payload = <<>> THEN arrays
                  ELSE [arrays EXCEPT ![serverObj.handle] =
                          Written(arrayData, "UnmapArray", d, o)]
             /\ queue' = write(queue, msg)
             /\ Copied("UnmapArray", d, o,
                  <<Call("anariUnmapArray", dev, serverObj.handle, NoArg),
                    Call("anariMapArray", dev, serverObj.handle, NoArg)>>
                  \o copy
                  \o <<Call("anariUnmapArray", dev, serverObj.handle, NoArg)>>,
                  <<msg>>, payload)
             /\ UNCHANGED <<resourceManager, client, serverFeatures, conn,
                            stopped, thrown, wire, pc, frame, devReg, lastReg,
                            bound, m_params>>

\* What anariMapFrame returns for one channel: the pointer (0: null) and the
\* width, height and pixel type it stores through its out-parameters.
FrameMaps ==
  [ptr : {NULL, 1}, width : {0, 1}, height : {1},
   type : {"ANARI_UNKNOWN", "ANARI_UFIXED8_RGBA_SRGB", "ANARI_FLOAT32"}]

\* Unsigned integers of a fixed width are sequences of bytes, the least
\* significant first: the k bytes of n.
RECURSIVE toBytes(_, _)
toBytes(n, k) ==
  IF k = 0 THEN <<>> ELSE <<n % 256>> \o toBytes(n \div 256, k - 1)

uint32_t(n) == toBytes(n, 4)

size_t(n) == toBytes(n, 8)

\* The conversion of an unsigned integer to one of k bytes: zero extension or
\* truncation.
widen(a, k) == [i \in 1..k |-> IF i <= Len(a) THEN a[i] ELSE 0]

\* The sum of the products a[p] * b[q] that have weight 256^i, from p on.
RECURSIVE column(_, _, _, _)
column(a, b, i, p) ==
  IF p > i \/ p >= Len(a) THEN 0
  ELSE (IF i - p < Len(b) THEN a[p + 1] * b[i - p + 1] ELSE 0)
       + column(a, b, i, p + 1)

\* The bytes i, i + 1, ..., k - 1 of the product of a and b, carry coming in.
RECURSIVE mulFrom(_, _, _, _, _)
mulFrom(a, b, k, i, carry) ==
  IF i = k THEN <<>>
  ELSE LET t == column(a, b, i, 0) + carry
       IN <<t % 256>> \o mulFrom(a, b, k, i + 1, t \div 256)

\* a * b in an unsigned type of k bytes: the product modulo 2^(8k).
mul(a, b, k) == mulFrom(a, b, k, 0, 0)

\* colorSize and depthSize: width * height is a product of two uint32_t, and
\* its result, converted to size_t, is multiplied by anari::sizeOf(type).
channelSize(m) ==
  IF m.type = "ANARI_UNKNOWN" THEN size_t(0)
  ELSE mul(widen(mul(uint32_t(m.width), uint32_t(m.height), 4), 8),
           size_t(sizeOf(m.type)), 8)

\* The outcomes of the TurboJPEG encoder: "ok", "fail" (compressTurboJPEG
\* returns false) and "empty" (the maximum compressed size is 0).
Encodings == {"ok", "fail", "empty"}

\* A color channel compressed whenever the build has TurboJPEG, whatever the
\* client announced.
colorPayloadServerOnly(m, enc) ==
  IF serverFeatures.hasTurboJPEG /\ m.type = "ANARI_UFIXED8_RGBA_SRGB"
  THEN IF enc = "ok" THEN "compressed" ELSE "none"
  ELSE "raw"

colorPayload(m, enc) ==
  IF (serverFeatures.hasTurboJPEG /\ client.compression.hasTurboJPEG)
       /\ m.type = "ANARI_UFIXED8_RGBA_SRGB"
  THEN IF enc = "ok" THEN "compressed" ELSE "none"
  ELSE "raw"

depthPayload(m) ==
  IF (serverFeatures.hasSNAPPY /\ client.compression.hasSNAPPY)
       /\ m.type = "ANARI_FLOAT32"
  THEN "compressed"
  ELSE "raw"

\* A channel buffer: the objectHandle, the width, height and pixel type, and
\* the payload, made from the size bytes (colorSize, depthSize) at the pointer.
\* A channel buffer that starts with another handle than the objectHandle of
\* the request.
ChannelDeviceHandle(n, type, o, m, payload) ==
  [type |-> type, handle |-> 1 - o,
   data |-> [width |-> m.width, height |-> m.height, type |-> m.type,
             payload |-> payload, size |-> channelSize(m)],
   req |-> n, from |-> conn]

Channel(n, type, o, m, payload) ==
  [type |-> type, handle |-> o,
   data |-> [width |-> m.width, height |-> m.height, type |-> m.type,
             payload |-> payload, size |-> channelSize(m)],
   req |-> n, from |-> conn]

\* RenderFrame up to and including the color channel.
RenderFrame(d, o, m, enc) ==
  /\ Inbound
  /\ LET dev == getDevice(resourceManager, d)
         fr == getServerObject(resourceManager, d, o).handle
         calls == <<Call("anariRenderFrame", dev, fr, NoArg),
                    Call("anariFrameReady", dev, fr, [mask |-> "ANARI_WAIT"]),
                    Call("anariMapFrame", dev, fr,
                         [channel |-> "channel.color"])>>
         msg == Channel(nreq + 1, "ChannelColor", o, m, colorPayload(m, enc))
     IN IF dev = NULL
        THEN Dropped("RenderFrame", d, o)
        ELSE /\ IF m.ptr # NULL /\ channelSize(m) # size_t(0)
                THEN /\ queue' = write(queue, msg)
                     /\ Record("RenderFrame", d, o, calls, <<msg>>)
                ELSE /\ queue' = queue
                     /\ Record("RenderFrame", d, o, calls, <<>>)
             /\ pc' = "depth"
             /\ frame' = [dev |-> dev, frame |-> fr, objectHandle |-> o]
             /\ UNCHANGED <<resourceManager, client, serverFeatures, conn,
                            stopped, thrown, wire, devReg, lastReg, bound,
                            arrays, m_params>>

\* The rest of RenderFrame: the depth channel.
RenderFrameDepth(m) ==
  /\ pc = "depth"
  /\ LET call == Call("anariMapFrame", frame.dev, frame.frame,
                      [channel |-> "channel.depth"])
         msg == Channel(nreq, "ChannelDepth", frame.objectHandle, m,
                        depthPayload(m))
     IN IF m.ptr # NULL /\ channelSize(m) # size_t(0)
        THEN /\ queue' = write(queue, msg)
             /\ posted' = Append(posted, msg)
             /\ last' = [last EXCEPT !.calls = Append(@, call),
                                     !.posts = Append(@, msg)]
        ELSE /\ queue' = queue
             /\ posted' = posted
             /\ last' = [last EXCEPT !.calls = Append(@, call)]
  /\ pc' = "idle"
  /\ frame' = NoFrame
  /\ UNCHANGED <<resourceManager, client, serverFeatures, conn, stopped,
                 thrown, wire, nreq, devReg, lastReg, bound,
                 arrays, mapped, m_params>>

FrameReady(d, o) ==
  /\ Inbound
  /\ LET dev == getDevice(resourceManager, d)
         fr == getServerObject(resourceManager, d, o).handle
     IN IF dev = NULL
        THEN Dropped("FrameReady", d, o)
        ELSE Answered("FrameReady", d, o,
               <<Call("anariFrameReady", dev, fr, [mask |-> "waitMask"])>>,
               Msg("FrameIsReady", o, [none |-> TRUE]))

PropertyTypes == {"ANARI_STRING_LIST", "ANARI_DATA_TYPE_LIST", "ANARI_INT32"}

GetProperty(d, o, type) ==
  /\ Inbound
  /\ LET dev == getDevice(resourceManager, d)
         found == getServerObject(resourceManager, d, o)
         serverObj == IF found.handle = NULL
                      THEN [device |-> dev, handle |-> dev,
                            type |-> "ANARI_DEVICE"]
                      ELSE found
         call == Call("anariGetProperty", dev, serverObj.handle,
                      [type |-> type])
     IN IF dev = NULL
        THEN Dropped("GetProperty", d, o)
        ELSE IF type = "ANARI_DATA_TYPE_LIST"
             THEN /\ thrown' = TRUE
                  /\ Record("GetProperty", d, o, <<>>, <<>>)
                  /\ UNCHANGED <<resourceManager, client, serverFeatures,
                                 conn, stopped, queue, wire, pc, frame,
                                 devReg, lastReg, bound,
                                 arrays, m_params>>
             ELSE Answered("GetProperty", d, o, <<call>>,
                    Msg("Property", o, [type |-> type]))

GetObjectSubtypes(d) ==
  /\ Inbound
  /\ LET dev == getDevice(resourceManager, d)
     IN IF dev = NULL
        THEN Dropped("GetObjectSubtypes", d, 0)
        ELSE Answered("GetObjectSubtypes", d, 0,
               <<Call("anariGetObjectSubtypes", dev, NULL, NoArg)>>,
               Msg("ObjectSubtypes", 0, [none |-> TRUE]))

\* found: the backend returned a non-null info pointer.
GetObjectInfo(d, found) ==
  /\ Inbound
  /\ LET dev == getDevice(resourceManager, d)
     IN IF dev = NULL
        THEN Dropped("GetObjectInfo", d, 0)
        ELSE Answered("GetObjectInfo", d, 0,
               <<Call("anariGetObjectInfo", dev, NULL, NoArg)>>,
               Msg("ObjectInfo", 0, [info |-> found]))

GetParameterInfo(d, found) ==
  /\ Inbound
  /\ LET dev == getDevice(resourceManager, d)
     IN IF dev = NULL
        THEN Dropped("GetParameterInfo", d, 0)
        ELSE Answered("GetParameterInfo", d, 0,
               <<Call("anariGetParameterInfo", dev, NULL, NoArg)>>,
               Msg("ParameterInfo", 0, [info |-> found]))

\* A message whose type is none of the above.
\* An unhandled message that is treated as a protocol error.
UnhandledStops ==
  /\ Inbound
  /\ DroppedStopping("Unhandled", 0, 0)

Unhandled ==
  /\ Inbound
  /\ Dropped("Unhandled", 0, 0)

\* ------------------------------------------------------ ParameterizedObject
\* AnariAny(type, v): a value with its type tag; AnariAny() is empty.
AnariAny(type, v) == [type |-> type, value |-> v]

AnariAnyEmpty == [type |-> "ANARI_UNKNOWN", value |-> NULL]

\* AnariAny::getString: the string of a string-typed value, else "".
getString(any) == IF any.type = "ANARI_STRING" THEN any.value ELSE ""

\* Param: std::pair<std::string, AnariAny>.
Param(name, any) == [first |-> name, second |-> any]

\* std::find_if over m_params for the first entry named name: its position,
\* 0 for end().
RECURSIVE findIfFrom(_, _, _)
findIfFrom(params, name, i) ==
  IF i > Len(params) THEN 0
  ELSE IF params[i].first = name THEN i
  ELSE findIfFrom(params, name, i + 1)

\* findParam of a const object: the position of the entry, 0 for nullptr.
findParamConst(params, name) == findIfFrom(params, name, 1)

\* findParam of a non-const object: the list afterwards and the position of
\* the entry, which is appended, empty, when there was none.
\* A findParam that appends an entry without looking for one.
findParamAppending(params, name) ==
  [params |-> Append(params, Param(name, AnariAnyEmpty)),
   at |-> Len(params) + 1]

findParam(params, name) ==
  LET foundParam == findIfFrom(params, name, 1)
  IN IF foundParam # 0
     THEN [params |-> params, at |-> foundParam]
     ELSE [params |-> Append(params, Param(name, AnariAnyEmpty)),
           at |-> Len(params) + 1]

\* A method of the object can be called.
Callable == nreq < bound.requests

\* History of one call: its name, arguments and result; the result of
\* removeParam is whether it found an entry to erase.
Returned(kind, name, type, v, result) ==
  /\ nreq' = nreq + 1
  /\ last' = [kind |-> kind, name |-> name, type |-> type, value |-> v,
              result |-> result]
  /\ UNCHANGED <<resourceManager, client, serverFeatures, conn, stopped,
                 thrown, queue, wire, pc, frame, posted, devReg, lastReg,
                 bound, arrays, mapped>>

hasParam(name) ==
  /\ Callable
  /\ m_params' = m_params
  /\ Returned("hasParam", name, NULL, NULL,
              findParamConst(m_params, name) # 0)

\* hasParam(name, type).
hasParamType(name, type) ==
  /\ Callable
  /\ m_params' = m_params
  /\ LET p == findParamConst(m_params, name)
     IN Returned("hasParamType", name, type, NULL,
                 IF p # 0 THEN m_params[p].second.type = type ELSE FALSE)

setParam(name, type, v) ==
  /\ Callable
  /\ LET p == findParam(m_params, name)
     IN m_params' = [p.params EXCEPT ![p.at].second = AnariAny(type, v)]
  /\ Returned("setParam", name, type, v, NULL)

\* The result is <<>> for false, else <<the value copied to v>>.
getParam(name, type) ==
  /\ Callable
  /\ m_params' = m_params
  /\ LET p == findParamConst(m_params, name)
     IN Returned("getParam", name, type, NULL,
                 IF type = "ANARI_STRING" \/ isObject(type) THEN <<>>
                 ELSE IF p = 0 \/ m_params[p].second.type # type THEN <<>>
                 ELSE <<m_params[p].second.value>>)

getParamString(name, valIfNotFound) ==
  /\ Callable
  /\ m_params' = m_params
  /\ LET p == findParamConst(m_params, name)
     IN Returned("getParamString", name, NULL, valIfNotFound,
                 IF p # 0 THEN getString(m_params[p].second)
                 ELSE valIfNotFound)

getParamDirect(name) ==
  /\ Callable
  /\ m_params' = m_params
  /\ LET p == findParamConst(m_params, name)
     IN Returned("getParamDirect", name, NULL, NULL,
                 IF p # 0 THEN m_params[p].second ELSE AnariAnyEmpty)

setParamDirect(name, v) ==
  /\ Callable
  /\ LET p == findParam(m_params, name)
     IN m_params' = [p.params EXCEPT ![p.at].second = v]
  /\ Returned("setParamDirect", name, v.type, v.value, NULL)

\* The list without its entry at position i.
erase(params, i) ==
  SubSeq(params, 1, i - 1) \o SubSeq(params, i + 1, Len(params))

\* removeParam that erases the entry found and every entry after it.
removeParamTruncating(name) ==
  /\ Callable
  /\ LET foundParam == findIfFrom(m_params, name, 1)
     IN m_params' = IF foundParam # 0
                    THEN SubSeq(m_params, 1, foundParam - 1)
                    ELSE m_params
  /\ Returned("removeParam", name, NULL, NULL,
              findIfFrom(m_params, name, 1) # 0)

removeParam(name) ==
  /\ Callable
  /\ LET foundParam == findIfFrom(m_params, name, 1)
     IN m_params' = IF foundParam # 0 THEN erase(m_params, foundParam)
                    ELSE m_params
  /\ Returned("removeParam", name, NULL, NULL,
              findIfFrom(m_params, name, 1) # 0)

removeAllParams ==
  /\ Callable
  /\ m_params' = <<>>
  /\ Returned("removeAllParams", "", NULL, NULL, NULL)

\* ---------------------------------------------------------- specifications
\* The requests a client may send, with the inputs drawn from the sets of K:
\* dh and oh the device and object handles, refs what the backend constructors
\* return, features the client's compression features, types the object type
\* tags, infos the array descriptors, elems the elements of array payloads
\* (no payload is appended when it is empty), values the handles of object-typed parameters, junk what a read
\* behind the end of a table yields, maps what anariMapFrame returns, encs
\* the encoder outcomes, props the property types, sizes the body sizes of
\* CommitParams.
Registrations(K) ==
  \/ \E f \in K.features, r \in K.refs : NewDevice(f, r)
  \/ \E d \in K.dh, o \in K.oh, t \in K.types, r \in K.refs :
       NewObject(d, o, t, r)
  \/ \E d \in K.dh, o \in K.oh, info \in K.infos, r \in K.refs,
        junk \in K.junk :
       \E payload \in {<<>>} \cup
             {<<p>> : p \in Payloads(info, K.elems)} :
         NewArray(d, o, info, payload, r, junk)

Queries(K) ==
  \/ \E d \in K.dh, o \in K.oh, t \in {"ANARI_FLOAT32", "ANARI_CAMERA"},
        v \in K.values, junk \in K.junk :
       SetParam(d, o, t, v, junk)
  \/ \E d \in K.dh, o \in K.oh : UnsetParam(d, o)
  \/ \E d \in K.dh, o \in K.oh : UnsetAllParams(d, o)
  \/ \E d \in K.dh, o \in K.oh, size \in K.sizes : CommitParams(size, d, o)
  \/ \E d \in K.dh, o \in K.oh : Release(d, o)
  \/ \E d \in K.dh, o \in K.oh : Retain(d, o)
  \/ \E d \in K.dh, o \in K.oh : MapArray(d, o)
  \/ \E d \in K.dh, o \in K.oh, junk \in K.junk :
       \E payload \in {<<>>} \cup
             {<<p>> : p \in Payloads(getArrayInfo(resourceManager, d, o),
                                      K.elems)} :
         UnmapArray(d, o, payload, junk)
  \/ \E d \in K.dh, o \in K.oh, m \in K.maps, enc \in K.encs :
       RenderFrame(d, o, m, enc)
  \/ \E d \in K.dh, o \in K.oh : FrameReady(d, o)
  \/ \E d \in K.dh, o \in K.oh, t \in K.props : GetProperty(d, o, t)
  \/ \E d \in K.dh : GetObjectSubtypes(d)
  \/ \E d \in K.dh, found \in BOOLEAN : GetObjectInfo(d, found)
  \/ \E d \in K.dh, found \in BOOLEAN : GetParameterInfo(d, found)
  \/ Unhandled

\* The dispatcher: every request kind, with valid and invalid handles.
MaxRequests == 2

Dispatch ==
  [dh |-> DeviceHandles, oh |-> ObjectHandles, refs |-> {NULL, 1},
   features |-> {AllCompression}, types |-> {"ANARI_FRAME", "ANARI_FLOAT32"},
   infos |-> {[type |-> "ANARI_ARRAY1D", elementType |-> "ANARI_CAMERA",
               numItems1 |-> 1, numItems2 |-> 0, numItems3 |-> 0]},
   elems |-> {MaxObjectHandle + 1}, values |-> {0, MaxObjectHandle + 1},
   junk |-> {NULL},
   maps |-> {m \in FrameMaps : m.width = 1}, encs |-> {"ok", "fail"},
   props |-> PropertyTypes,
   sizes |-> {HandleSize, 2 * HandleSize}]

Init == Start(AllCompression, MaxRequests, 1)

Next ==
  \/ run
  \/ \E e \in BOOLEAN : handleNewConnection(e)
  \/ handleMessageError
  \/ handleMessageWritten
  \/ \E m \in Dispatch.maps : RenderFrameDepth(m)
  \/ Registrations(Dispatch)
  \/ Queries(Dispatch)

Spec == Init /\ [][Next]_vars

\* The resource manager: the requests that register devices, objects, arrays.
MaxRegistrations == 3

Tables ==
  [dh |-> 1..MaxDevices, oh |-> ObjectHandles, refs |-> {NULL, 1, 2},
   features |-> {NoCompression},
   types |-> {"ANARI_CAMERA", "ANARI_FLOAT32"},
   infos |-> {[type |-> "ANARI_ARRAY1D", elementType |-> "ANARI_UINT8",
               numItems1 |-> 1, numItems2 |-> 0, numItems3 |-> 0],
              [type |-> "ANARI_ARRAY3D", elementType |-> "ANARI_FLOAT32",
               numItems1 |-> 2, numItems2 |-> 1, numItems3 |-> 2]},
   elems |-> {}, junk |-> {NULL}]

InitTables == Start(NoCompression, MaxRegistrations, 1)

NextTables ==
  \/ run
  \/ \E e \in BOOLEAN : handleNewConnection(e)
  \/ handleMessageError
  \/ Registrations(Tables)

SpecTables == InitTables /\ [][NextTables]_vars

\* The outbound path: the requests that post responses, interleaved with the
\* queue's thread and with a second connection being accepted.
MaxPostingRequests == 3

MaxConnections == 2

Posting ==
  [dh |-> {1}, oh |-> {0}, refs |-> {NULL, 1}, features |-> {AllCompression},
   maps |-> {m \in FrameMaps : m.width = 1 /\ m.type = "ANARI_FLOAT32"},
   encs |-> {"ok"}]

InitPosting == Start(AllCompression, MaxPostingRequests, MaxConnections)

NextPosting ==
  \/ run
  \/ \E e \in BOOLEAN : handleNewConnection(e)
  \/ handleMessageError
  \/ handleMessageWritten
  \/ \E m \in Posting.maps : RenderFrameDepth(m)
  \/ \E f \in Posting.features, r \in Posting.refs : NewDevice(f, r)
  \/ \E d \in Posting.dh, o \in Posting.oh, m \in Posting.maps,
        enc \in Posting.encs : RenderFrame(d, o, m, enc)
  \/ \E d \in Posting.dh, o \in Posting.oh : FrameReady(d, o)
  \/ \E d \in Posting.dh : GetObjectSubtypes(d)
  \/ Unhandled

SpecPosting == InitPosting /\ [][NextPosting]_vars

\* Every request kind on the objects and arrays of one device: construction,
\* then the requests that name what was constructed.
MaxObjectRequests == 3

\* What a read behind the end of an object table yields in this slice: null
\* or a stray pointer.
Stray == 7

Objects ==
  [dh |-> {1}, oh |-> 0..1, refs |-> {NULL, 1},
   features |-> {NoCompression}, types |-> {"ANARI_CAMERA", "ANARI_FLOAT32"},
   infos |-> {[type |-> "ANARI_ARRAY1D", elementType |-> "ANARI_FLOAT32",
               numItems1 |-> 1, numItems2 |-> 0, numItems3 |-> 0]},
   elems |-> {}, values |-> {0, 2}, junk |-> {NULL, Stray},
   sizes |-> {HandleSize, 2 * HandleSize, 3 * HandleSize},
   maps |-> {[ptr |-> 1, width |-> 1, height |-> 1, type |-> "ANARI_FLOAT32"]},
   encs |-> {"ok"}, props |-> {"ANARI_INT32"}]

InitObjects == Start(NoCompression, MaxObjectRequests, 1)

NextObjects ==
  \/ \E e \in BOOLEAN : handleNewConnection(e)
  \/ handleMessageError
  \/ \E m \in Objects.maps : RenderFrameDepth(m)
  \/ Registrations(Objects)
  \/ Queries(Objects)

SpecObjects == InitObjects /\ [][NextObjects]_vars

\* Arrays with payloads: an object at handle 1 of device 1, and at handle 0
\* an array of one FLOAT32 or of 1 x 2 cameras, created, mapped and unmapped
\* with payloads whose elements name the array itself (0), the object (1) and
\* a handle behind the end of the object table (2).
MaxArrayRequests == 4

Arrays ==
  [refs |-> {NULL, 2},
   infos |-> {[type |-> "ANARI_ARRAY1D", elementType |-> "ANARI_FLOAT32",
               numItems1 |-> 1, numItems2 |-> 0, numItems3 |-> 0],
              [type |-> "ANARI_ARRAY2D", elementType |-> "ANARI_CAMERA",
               numItems1 |-> 1, numItems2 |-> 2, numItems3 |-> 0]},
   elems |-> 0..2, junk |-> {NULL, Stray}]

InitArrays == Start(NoCompression, MaxArrayRequests, 1)

NextArrays ==
  \/ \E e \in BOOLEAN : handleNewConnection(e)
  \/ NewDevice(NoCompression, 1)
  \/ \E r \in Arrays.refs : NewObject(1, 1, "ANARI_CAMERA", r)
  \/ \E info \in Arrays.infos, junk \in Arrays.junk :
       \E payload \in {<<>>} \cup
             {<<p>> : p \in Payloads(info, Arrays.elems)} :
         NewArray(1, 0, info, payload, 1, junk)
  \/ \E o \in 0..1 : MapArray(1, o)
  \/ \E junk \in Arrays.junk :
       \E payload \in {<<>>} \cup
             {<<p>> : p \in Payloads(getArrayInfo(resourceManager, 1, 0),
                                      Arrays.elems)} :
         UnmapArray(1, 0, payload, junk)

SpecArrays == InitArrays /\ [][NextArrays]_vars

\* Frames rendered under every combination of the build's and the client's
\* compression features.
MaxFrameRequests == 3

Frames ==
  [dh |-> {1}, oh |-> {1}, features |-> Features, maps |-> FrameMaps,
   encs |-> Encodings]

InitFrames == \E cf \in Features : Start(cf, MaxFrameRequests, 1)

NextFrames ==
  \/ \E e \in BOOLEAN : handleNewConnection(e)
  \/ \E m \in Frames.maps : RenderFrameDepth(m)
  \/ \E f \in Frames.features : NewDevice(f, 1)
  \/ \E d \in Frames.dh, o \in Frames.oh, m \in Frames.maps,
        enc \in Frames.encs : RenderFrame(d, o, m, enc)

SpecFrames == InitFrames /\ [][NextFrames]_vars

\* The outbound path: requests that are answered, accepted connections, a
\* channel error, and the queue's thread, which Server::run starts and which
\* runs the tasks posted for as long as there are any.
MaxOutboundRequests == 3

Outbound == [dh |-> {1}, refs |-> {NULL, 1}, features |-> {NoCompression}]

InitOutbound == Start(NoCompression, MaxOutboundRequests, MaxConnections)

NextOutbound ==
  \/ run
  \/ handleNewConnection(FALSE)
  \/ handleMessageError
  \/ \E f \in Outbound.features, r \in Outbound.refs : NewDevice(f, r)
  \/ \E d \in Outbound.dh : GetObjectSubtypes(d)

SpecOutbound == InitOutbound /\ [][NextOutbound]_vars /\ WF_vars(run)

\* A ParameterizedObject: every method, on parameters of two names.
MaxParamCalls == 4

Params ==
  [names |-> {"a", "b"}, types |-> {"ANARI_FLOAT32", "ANARI_STRING"},
   values |-> {1, 2}]

InitParams == Start(NoCompression, MaxParamCalls, 0)

NextParams ==
  \/ \E n \in Params.names : hasParam(n)
  \/ \E n \in Params.names, t \in Params.types : hasParamType(n, t)
  \/ \E n \in Params.names, t \in Params.types, v \in Params.values :
       setParam(n, t, v)
  \/ \E n \in Params.names, t \in Params.types : getParam(n, t)
  \/ \E n \in Params.names, v \in Params.values : getParamString(n, v)
  \/ \E n \in Params.names : getParamDirect(n)
  \/ \E n \in Params.names, t \in Params.types, v \in Params.values :
       setParamDirect(n, AnariAny(t, v))
  \/ \E n \in Params.names : removeParam(n)
  \/ removeAllParams

SpecParams == InitParams /\ [][NextParams]_vars

\* Frames of large dimensions: one frame object, rendered, with channels of
\* up to 65536 x 65537 pixels.
MaxSizeRequests == 3

Sizes ==
  [dh |-> {1}, oh |-> {0}, refs |-> {1}, features |-> {NoCompression},
   types |-> {"ANARI_FRAME"},
   maps |-> [ptr : {NULL, 1}, width : {0, 1, 65536}, height : {1, 65537},
             type : {"ANARI_UFIXED8_RGBA_SRGB", "ANARI_FLOAT32"}],
   encs |-> {"ok"}]

InitSizes == Start(NoCompression, MaxSizeRequests, 1)

NextSizes ==
  \/ handleNewConnection(FALSE)
  \/ \E m \in Sizes.maps : RenderFrameDepth(m)
  \/ \E f \in Sizes.features, r \in Sizes.refs : NewDevice(f, r)
  \/ \E d \in Sizes.dh, o \in Sizes.oh, t \in Sizes.types,
        r \in Sizes.refs : NewObject(d, o, t, r)
  \/ \E d \in Sizes.dh, o \in Sizes.oh, m \in Sizes.maps,
        enc \in Sizes.encs : RenderFrame(d, o, m, enc)

SpecSizes == InitSizes /\ [][NextSizes]_vars

\* ------------------------------------------------------------------ claims
IsDeviceHandle(m) == m.type = "DeviceHandle"

WireMsgs == [i \in 1..Len(wire) |-> wire[i].msg]

\* A device handle is valid iff it is less than the device table length and
\* its slot is non-null.
DeviceValid(rm, h) ==
  h < Len(rm.anariDevices) /\ rm.anariDevices[h + 1] # NULL

C2_GetDeviceReturnsStored ==
  /\ \A p \in devReg : getDevice(resourceManager, p[1]) = p[2]
  /\ getDevice(resourceManager, 0) = NULL
  /\ \A h \in DeviceHandles \cup {MaxDevices + 2} :
       h >= Len(resourceManager.anariDevices) =>
         getDevice(resourceManager, h) = NULL

C2_Witness ==
  /\ <<1, 2>> \in devReg
  /\ getDevice(resourceManager, 1) = 2
  /\ lastReg[<<1, 1>>].by = "registerArray"
  /\ Len(resourceManager.anariDevices) = 2

\* C3: getServerObject(dev, obj) returns the type and the backend reference
\* of the last registration at (dev, obj), whatever was registered at other
\* pairs; for a pair never registered (a gap below a registered handle, a
\* handle behind the end of the table, an unknown device) the backend
\* reference is null.
C3_GetServerObjectReturnsLast ==
  \A d \in 0..(MaxDevices + 1), o \in 0..(MaxObjectHandle + 1) :
    LET found == getServerObject(resourceManager, d, o)
    IN IF <<d, o>> \in Pairs /\ lastReg[<<d, o>>].by # "none"
       THEN /\ found.handle = lastReg[<<d, o>>].handle
            /\ found.type = lastReg[<<d, o>>].type
       ELSE found.handle = NULL

\* An object at handle 1 of device 1, registered before the one at handle 0,
\* and handle 0 registered twice.
C3_Witness ==
  /\ lastReg[<<1, 1>>].by = "registerObject"
  /\ lastReg[<<1, 1>>].handle = 2
  /\ lastReg[<<1, 0>>].by = "registerArray"
  /\ lastReg[<<1, 0>>].handle = 1
  /\ getServerObject(resourceManager, 1, 1).handle = 2
  /\ getServerObject(resourceManager, 1, 1).type = "ANARI_CAMERA"

\* C4: for every pair registered last by registerArray with ArrayInfo i,
\* getArrayInfo returns exactly i, whatever was registered afterwards at the
\* other pairs.
C4_GetArrayInfoReturnsRegistered ==
  \A p \in Pairs :
    lastReg[p].by = "registerArray" =>
      getArrayInfo(resourceManager, p[1], p[2]) = lastReg[p].info

\* An array at handle 0 and, registered after it, an object at handle 1.
C4_Witness ==
  /\ lastReg[<<1, 0>>].by = "registerArray"
  /\ lastReg[<<1, 0>>].info.numItems3 = 2
  /\ lastReg[<<1, 1>>].by = "registerObject"
  /\ last.kind = "NewObject" /\ last.obj = 1
  /\ getArrayInfo(resourceManager, 1, 0).numItems3 = 2

\* C5: what was written to the channel, followed by what is still queued, is
\* the sequence of Server::write calls: written in order, nothing lost,
\* nothing twice.
C5_WrittenIsPostedInOrder == posted = WireMsgs \o queue

C5_Witness ==
  /\ Len(wire) >= 2 /\ Len(queue) >= 2
  /\ wire[1].msg.type = "DeviceHandle"
  /\ queue[Len(queue)].type = "FrameIsReady"

\* C6: a response of an earlier request is written before every response of
\* a later request.
C6_ResponsesInRequestOrder ==
  \A i, j \in 1..Len(wire) :
    i < j => wire[i].msg.req <= wire[j].msg.req

C6_Witness ==
  /\ Len(wire) = 4
  /\ wire[1].msg.req = 1 /\ wire[2].msg.req = 2 /\ wire[3].msg.req = 2
  /\ wire[4].msg.req = 3
  /\ wire[1].conn = 1 /\ wire[4].conn = 2


\* The last request was a RenderFrame on a valid device and its handler has
\* returned.
RenderFrameDone ==
  /\ pc = "idle"
  /\ last.kind = "RenderFrame"
  /\ DeviceValid(resourceManager, last.dev)

IsChannelColor(m) == m.type = "ChannelColor"

IsChannelDepth(m) == m.type = "ChannelDepth"

\* C7 as stated: every RenderFrame on a valid device posts exactly one
\* ChannelColor, then at most one ChannelDepth, each with the request's
\* objectHandle.
C7_ExactlyOneColor ==
  RenderFrameDone =>
    /\ Len(last.posts) \in {1, 2}
    /\ IsChannelColor(last.posts[1])
    /\ Len(last.posts) = 2 => IsChannelDepth(last.posts[2])
    /\ \A i \in 1..Len(last.posts) : last.posts[i].handle = last.obj

\* C7, amended: every RenderFrame on a valid device posts at most one
\* ChannelColor (none when the backend maps no color pixels), followed by at
\* most one ChannelDepth, and nothing else; each of them carries the
\* objectHandle of the request.
C7_AtMostOneColorThenDepth ==
  RenderFrameDone =>
    /\ Len(SelectSeq(last.posts, IsChannelColor)) <= 1
    /\ Len(SelectSeq(last.posts, IsChannelDepth)) <= 1
    /\ \A i \in 1..Len(last.posts) :
         /\ IsChannelColor(last.posts[i]) \/ IsChannelDepth(last.posts[i])
         /\ IsChannelColor(last.posts[i]) => i = 1
         /\ last.posts[i].handle = last.obj
         /\ last.posts[i].req = nreq

\* A RenderFrame on frame handle 1 whose color channel the backend did not
\* map: the depth channel is the only response.
C7_Witness ==
  /\ RenderFrameDone
  /\ last.obj = 1
  /\ Len(last.calls) = 4
  /\ Len(last.posts) = 1
  /\ IsChannelDepth(last.posts[1])
  /\ last.posts[1].handle = 1

\* C8: the ChannelColor and the ChannelDepth of one RenderFrame are posted
\* and written next to each other, the ChannelColor first.
C8_ColorThenDepthAdjacent ==
  /\ \A i, j \in 1..Len(posted) :
       (IsChannelColor(posted[i]) /\ IsChannelDepth(posted[j])
          /\ posted[i].req = posted[j].req) => j = i + 1
  /\ \A i, j \in 1..Len(wire) :
       (IsChannelColor(wire[i].msg) /\ IsChannelDepth(wire[j].msg)
          /\ wire[i].msg.req = wire[j].msg.req) => j = i + 1
  /\ \A j \in 1..Len(wire) :
       (IsChannelDepth(wire[j].msg) /\ j > 1
          /\ wire[j - 1].msg.req = wire[j].msg.req) =>
         IsChannelColor(wire[j - 1].msg)

C8_Witness ==
  /\ Len(wire) = 4
  /\ wire[1].msg.type = "DeviceHandle"
  /\ IsChannelColor(wire[2].msg)
  /\ IsChannelDepth(wire[3].msg)
  /\ wire[2].msg.req = wire[3].msg.req
  /\ wire[4].msg.type = "FrameIsReady"

\* C9: a request of any kind but NewDevice whose device handle is invalid
\* makes no backend call, posts nothing, leaves the tables alone and does not
\* stop the manager; the dispatcher is ready for the next request.
C9_InvalidDeviceDropped ==
  [][(/\ nreq' = nreq + 1
      /\ last'.kind \notin {"NewDevice", "Unhandled"}
      /\ ~DeviceValid(resourceManager, last'.dev))
     => (/\ last'.calls = <<>>
         /\ last'.posts = <<>>
         /\ posted' = posted
         /\ queue' = queue
         /\ resourceManager' = resourceManager
         /\ lastReg' = lastReg
         /\ stopped' = FALSE
         /\ thrown' = FALSE
         /\ pc' = "idle")]_vars

\* A device was registered, and then a request named device handle 0, the
\* null slot in front of it.
C9_Witness ==
  /\ nreq = 2
  /\ Len(resourceManager.anariDevices) = 2
  /\ resourceManager.anariDevices[2] # NULL
  /\ last.kind = "MapArray"
  /\ last.dev = 0
  /\ last.calls = <<>>
  /\ ~stopped

ObjectHandleKinds ==
  {"SetParam", "UnsetParam", "UnsetAllParams", "CommitParamsObject",
   "Release", "Retain", "MapArray", "UnmapArray", "RenderFrame", "FrameReady"}

\* C10 as stated: a request of a kind that hands an object to the backend,
\* naming a slot without a backend reference, makes no backend call and posts
\* no response.
C10_NullObjectDropped ==
  (/\ last.kind \in ObjectHandleKinds
   /\ DeviceValid(resourceManager, last.dev)
   /\ getServerObject(resourceManager, last.dev, last.obj).handle = NULL)
  => (last.calls = <<>> /\ last.posts = <<>>)


\* C11: a message of an unhandled type makes no backend call, posts nothing,
\* leaves the tables, the client's compression features and every other field
\* of the server as they were and does not stop the manager, so the request
\* after it meets the server it would have met without the message.
C11_UnhandledChangesNothing ==
  [][(nreq' = nreq + 1 /\ last'.kind = "Unhandled")
     => (/\ last'.calls = <<>>
         /\ last'.posts = <<>>
         /\ posted' = posted
         /\ stopped' = FALSE
         /\ thrown' = FALSE
         /\ UNCHANGED <<resourceManager, client, serverFeatures, conn, queue,
                        wire, pc, frame, lastReg, devReg>>)]_vars

\* An unhandled message arrived after a device was created, and the request
\* after it was answered.
C11_Witness ==
  /\ nreq = 3
  /\ Len(posted) = 2
  /\ posted[1].type = "DeviceHandle" /\ posted[1].req = 1
  /\ posted[2].type = "FrameIsReady" /\ posted[2].req = 3
  /\ client.compression = AllCompression


\* C12 as stated: a NewObject or NewArray whose construction yields a null
\* reference (a type outside the constructor table, a rank that is not
\* 1D/2D/3D, a backend that returns null) leaves the object and array tables
\* as they were.
C12_NullConstructionNotRegistered ==
  [][(/\ nreq' = nreq + 1
      /\ last'.kind \in {"NewObject", "NewArray"}
      /\ getServerObject(resourceManager', last'.dev, last'.obj).handle = NULL)
     => (/\ resourceManager'.serverObjects = resourceManager.serverObjects
         /\ resourceManager'.serverArrays = resourceManager.serverArrays)]_vars


\* C13 as stated: no invocation of handleMessage ends with an exception
\* leaving it, whatever the message kind and body.
C13_NoExceptionEscapes == thrown = FALSE


IsCommit == last.kind \in {"CommitParams", "CommitParamsObject"}

\* C14: CommitParams with a body of exactly one handle commits the device on
\* itself, whatever the object table holds; with a body of any other size it
\* commits the object registered at the two handles read (and nothing when
\* that slot or the device is invalid).
C14_CommitParamsByBodyLength ==
  IsCommit =>
    LET dev == getDevice(resourceManager, last.dev)
        ref == getServerObject(resourceManager, last.dev, last.obj).handle
    IN /\ last.posts = <<>>
       /\ IF last.size = 8
          THEN last.calls =
                 IF dev = NULL THEN <<>>
                 ELSE <<[fn |-> "anariCommitParameters", dev |-> dev,
                         obj |-> dev, arg |-> NoArg]>>
          ELSE last.calls =
                 IF dev = NULL \/ ref = NULL THEN <<>>
                 ELSE <<[fn |-> "anariCommitParameters", dev |-> dev,
                         obj |-> ref, arg |-> NoArg]>>

\* A body of three handles committed the object registered at (1, 1).
C14_Witness ==
  /\ IsCommit
  /\ last.size = 24
  /\ last.dev = 1 /\ last.obj = 1
  /\ Len(last.calls) = 1
  /\ last.calls[1].obj = getServerObject(resourceManager, 1, 1).handle


\* The last request is a RenderFrame on a valid device.
Rendering ==
  last.kind = "RenderFrame" /\ DeviceValid(resourceManager, last.dev)

\* C15: the color channel of a RenderFrame takes the lossy branch iff the
\* build and the client (as stored by the last NewDevice) both have lossy
\* image compression and the pixel type is 8-bit sRGB RGBA; the depth channel
\* takes the lossless branch iff both have lossless byte compression and the
\* pixel type is 32-bit float.
C15_CompressionByNegotiatedFeature ==
  Rendering =>
    \A i \in 1..Len(last.posts) :
      LET msg == last.posts[i]
      IN /\ IsChannelColor(msg) =>
              (msg.data.payload # "raw" <=>
                 (/\ serverFeatures.hasTurboJPEG
                  /\ client.compression.hasTurboJPEG
                  /\ msg.data.type = "ANARI_UFIXED8_RGBA_SRGB"))
         /\ IsChannelDepth(msg) =>
              (msg.data.payload # "raw" <=>
                 (/\ serverFeatures.hasSNAPPY
                  /\ client.compression.hasSNAPPY
                  /\ msg.data.type = "ANARI_FLOAT32"))

\* The client of the second NewDevice has no lossy compression: an sRGB color
\* channel goes out raw from a build that has it, and the float depth channel
\* goes out compressed.
C15_Witness ==
  /\ Rendering
  /\ nreq = 3
  /\ serverFeatures = AllCompression
  /\ client.compression = [hasTurboJPEG |-> FALSE, hasSNAPPY |-> TRUE]
  /\ Len(last.posts) = 2
  /\ last.posts[1].data.type = "ANARI_UFIXED8_RGBA_SRGB"
  /\ last.posts[1].data.payload = "raw"
  /\ last.posts[2].data.type = "ANARI_FLOAT32"
  /\ last.posts[2].data.payload = "compressed"


\* C16 as stated: every channel response posted carries, after its header,
\* either the count and the compressed bytes or the raw bytes, never nothing,
\* whatever the encoder reports.
C16_ChannelHasPayload ==
  \A i \in 1..Len(posted) :
    (IsChannelColor(posted[i]) \/ IsChannelDepth(posted[i])) =>
      posted[i].data.payload \in {"compressed", "raw"}


\* The last request is one of the one-way kinds and named valid handles: a
\* valid device and, for the kinds that name an object, a slot with a
\* non-null backend reference.
OneWayValid ==
  /\ last.kind \in {"NewObject", "SetParam", "UnsetParam", "UnsetAllParams",
                    "CommitParams", "CommitParamsObject", "Release", "Retain"}
  /\ DeviceValid(resourceManager, last.dev)
  /\ last.kind \notin {"NewObject", "CommitParams"} =>
       getServerObject(resourceManager, last.dev, last.obj).handle # NULL

\* C17 as stated: a one-way request with valid handles makes exactly one
\* backend call and posts nothing, and only RenderFrame posts more than one
\* response.
C17_OneWayExactlyOneCall ==
  /\ OneWayValid => (Len(last.calls) = 1 /\ last.posts = <<>>)
  /\ last.kind # "RenderFrame" => Len(last.posts) <= 1

\* C17, amended: a one-way request with valid handles posts nothing and makes
\* exactly one backend call, except a NewObject whose type tag has no
\* constructor, which makes none; only RenderFrame posts more than one
\* response.
C17_OneWayAtMostOneCall ==
  /\ OneWayValid =>
       /\ last.posts = <<>>
       /\ Len(last.calls) =
            IF /\ last.kind = "NewObject"
               /\ getServerObject(resourceManager, last.dev, last.obj).type
                    \notin ConstructorTypes
            THEN 0 ELSE 1
  /\ last.kind # "RenderFrame" => Len(last.posts) <= 1

\* A parameter was set on the object registered at (1, 1).
C17_Witness ==
  /\ OneWayValid
  /\ last.kind = "SetParam"
  /\ last.obj = 1
  /\ Len(last.calls) = 1
  /\ last.calls[1].fn = "anariSetParameter"
  /\ last.calls[1].obj = getServerObject(resourceManager, 1, 1).handle
  /\ queue = <<posted[1]>>


\* The array at pair p was created by a NewArray that carried a payload of
\* POD elements, and the memory behind its backend reference is still what
\* that NewArray copied into it: no UnmapArray with payload wrote to it and
\* the backend did not hand the reference out again.
PodArrayAsSent(p) ==
  /\ p \in Pairs
  /\ lastReg[p].by = "registerArray"
  /\ lastReg[p].handle # NULL
  /\ lastReg[p].sent # <<>>
  /\ ~isObject(lastReg[p].info.elementType)
  /\ arrays[lastReg[p].handle].written
  /\ arrays[lastReg[p].handle].by = "NewArray"
  /\ arrays[lastReg[p].handle].dev = p[1]
  /\ arrays[lastReg[p].handle].obj = p[2]

\* C18: a MapArray on a POD array that a NewArray created with payload P
\* posts one ArrayMapped with the objectHandle of the request, with the
\* sizeInBytes of the registered ArrayInfo as numBytes and with P as bytes.
C18_MapArrayReturnsPayload ==
  [][(/\ nreq' = nreq + 1
      /\ last'.kind = "MapArray"
      /\ PodArrayAsSent(<<last'.dev, last'.obj>>))
     => LET reg == lastReg[<<last'.dev, last'.obj>>]
        IN /\ Len(last'.posts) = 1
           /\ last'.posts[1].type = "ArrayMapped"
           /\ last'.posts[1].handle = last'.obj
           /\ last'.posts[1].data.numBytes =
                sizeOf(reg.info.elementType) * reg.info.numItems1
                  * Max(1, reg.info.numItems2) * Max(1, reg.info.numItems3)
           /\ last'.posts[1].data.bytes = reg.sent[1]
           /\ queue' = Append(queue, last'.posts[1])]_vars

\* The FLOAT32 array at (1, 0) was created with the payload <<2>> and mapped.
C18_Witness ==
  /\ last.kind = "MapArray"
  /\ last.obj = 0
  /\ PodArrayAsSent(<<1, 0>>)
  /\ lastReg[<<1, 0>>].sent = <<<<2>>>>
  /\ Len(last.posts) = 1
  /\ last.posts[1].data.bytes = <<2>>
  /\ last.posts[1].data.numBytes = 4


IsMemcpy(c) == c.fn = "memcpy"

\* The last request copied an array payload into a backend array.
CopiedPayload(req) ==
  /\ req.kind \in {"NewArray", "UnmapArray"}
  /\ SelectSeq(req.calls, IsMemcpy) # <<>>
  /\ req.sent # <<>>

\* C19: the bytes that NewArray and UnmapArray copy into the backend array
\* are, for an object element type, the backend references that the object
\* table of the array's device holds for the client handles of the payload,
\* in the order of the payload; for any other element type they are the
\* payload itself.
C19_PayloadTranslated ==
  [][(nreq' = nreq + 1 /\ CopiedPayload(last'))
     => LET d == last'.dev
            info == getArrayInfo(resourceManager', d, last'.obj)
            ref == getServerObject(resourceManager', d, last'.obj).handle
            copy == SelectSeq(last'.calls, IsMemcpy)[1]
            bytes == copy.arg.bytes
            sent == last'.sent[1]
            table == resourceManager.serverObjects[d + 1]
        IN /\ copy.obj = ref
           /\ arrays'[ref].written /\ arrays'[ref].bytes = bytes
           /\ Len(bytes) = Len(sent)
           /\ Len(sent) = info.numItems1 * Max(1, info.numItems2)
                            * Max(1, info.numItems3)
           /\ IF info.elementType \in ConstructorTypes \cup ArrayTypes
              THEN \A i \in 1..Len(sent) :
                     sent[i] < Len(table) => bytes[i] = table[sent[i] + 1].handle
              ELSE bytes = sent]_vars

\* The camera at handle 1 has the backend reference 2; a NewArray of 1 x 2
\* cameras with the payload <<1, 0>> wrote <<2, null>> into the array.
C19_Witness ==
  /\ last.kind = "NewArray"
  /\ CopiedPayload(last)
  /\ last.sent = <<<<1, 0>>>>
  /\ getServerObject(resourceManager, 1, 1).handle = 2
  /\ arrays[1].written
  /\ arrays[1].bytes = <<2, NULL>>


\* C20 as stated: when NewArray or UnmapArray copies a payload of object
\* handles, every element whose handle is unknown on the device, in a gap of
\* the object table or behind its end, is written as a null backend reference
\* (the only treatment under which such a request is not rejected); nothing
\* read from behind the end of the table reaches the backend.
C20_UnknownHandleNull ==
  [][(nreq' = nreq + 1 /\ CopiedPayload(last'))
     => LET d == last'.dev
            info == getArrayInfo(resourceManager', d, last'.obj)
            bytes == SelectSeq(last'.calls, IsMemcpy)[1].arg.bytes
            sent == last'.sent[1]
            table == resourceManager.serverObjects[d + 1]
        IN info.elementType \in ConstructorTypes \cup ArrayTypes =>
             \A i \in 1..Len(sent) :
               (\/ sent[i] >= Len(table)
                \/ table[sent[i] + 1].handle = NULL) => bytes[i] = NULL]_vars

\* The names of the backend functions called, in order.
Fns(calls) == [i \in 1..Len(calls) |-> calls[i].fn]

\* Every call of calls is made on the backend object ref of the device dev.
AllOn(calls, dev, ref) ==
  \A i \in 1..Len(calls) : calls[i].dev = dev /\ calls[i].obj = ref

\* (d, o) names an array of a registered device.
ValidArray(d, o) ==
  /\ ~Invalid(d, o)
  /\ getServerObject(resourceManager, d, o).type \in ArrayTypes

\* C21: MapArray on a valid array makes one backend map and leaves the array
\* mapped; the UnmapArray that follows it on the same array makes, in order,
\* a backend unmap, a backend map, the write of the payload if there is one,
\* and a backend unmap, leaves the array unmapped, and posts exactly one
\* ArrayUnmapped that carries the request's objectHandle.
C21_MapThenUnmap ==
  [][(nreq' = nreq + 1 /\ ValidArray(last'.dev, last'.obj))
     => LET dev == getDevice(resourceManager, last'.dev)
            ref == getServerObject(resourceManager, last'.dev,
                                   last'.obj).handle
        IN /\ last'.kind = "MapArray"
              => /\ Fns(last'.calls) = <<"anariMapArray">>
                 /\ AllOn(last'.calls, dev, ref)
                 /\ ref \in mapped'
           /\ (/\ last'.kind = "UnmapArray"
               /\ last.kind = "MapArray"
               /\ last.dev = last'.dev /\ last.obj = last'.obj)
              => /\ Fns(last'.calls) =
                      <<"anariUnmapArray", "anariMapArray">>
                      \o (IF last'.sent = <<>> THEN <<>> ELSE <<"memcpy">>)
                      \o <<"anariUnmapArray">>
                 /\ AllOn(last'.calls, dev, ref)
                 /\ ref \notin mapped'
                 /\ Len(last'.posts) = 1
                 /\ last'.posts[1].type = "ArrayUnmapped"
                 /\ last'.posts[1].handle = last'.obj
                 /\ posted' = posted \o last'.posts]_vars

\* An UnmapArray with a payload was dispatched right after the MapArray of the
\* same array, and the array is not mapped any more.
C21_Witness ==
  /\ nreq >= 2
  /\ last.kind = "UnmapArray"
  /\ Len(last.calls) = 4
  /\ last.calls[1].obj \notin mapped
  /\ \E i \in 1..Len(posted) :
       /\ posted[i].type = "ArrayMapped"
       /\ posted[i].req = nreq - 1
       /\ posted[i].handle = last.obj

\* C22: on a channel error delivered to handleMessage the manager is stopped
\* and the message is not dispatched (no backend call, no table change, no
\* post), and every response posted but not yet written is discarded: nothing
\* is written to the channel after the error.
C22_ErrorDiscardsPosted ==
  [][/\ (stopped' /\ ~stopped)
        => /\ nreq' = nreq
           /\ UNCHANGED <<resourceManager, last, posted, queue, wire, arrays,
                          mapped>>
     /\ stopped => wire' = wire]_vars


\* C23: the outbound queue is the only state the execution contexts share:
\* the tables and the backend change only in a request dispatched by the
\* inbound context, and what the outbound context writes is fixed by the task
\* it takes from the queue: it is the same for every value the accept context
\* has stored in the current-connection pointer since the task was posted.
C23_OnlyQueueShared ==
  [][/\ (resourceManager' # resourceManager \/ arrays' # arrays
         \/ mapped' # mapped)
        => nreq' = nreq + 1
     /\ wire' # wire
        => \A c \in front(queue).from..conn :
             wire' = writeImpl(wire, c, front(queue))]_vars


\* The positions of the entries named name.
Entries(params, name) == {i \in 1..Len(params) : params[i].first = name}

\* The entries named name, in order.
Named(params, name) == SelectSeq(params, LAMBDA p : p.first = name)

\* The entries not named name, in order.
Others(params, name) == SelectSeq(params, LAMBDA p : p.first # name)

\* C24: after setParam(name, t1, v1) then setParam(name, t2, v2), with any
\* calls on other names in between, the list has exactly one entry for name,
\* of type t2 and value v2, and the entries of other names are unchanged: a
\* call on another name leaves the entry of name as it is, and setParam leaves
\* one entry for its name, with its type and value, and the others untouched.
C24_LastSetParamWins ==
  [][nreq' = nreq + 1
     => /\ last'.kind = "setParam"
           => /\ Cardinality(Entries(m_params', last'.name)) = 1
              /\ Named(m_params', last'.name) =
                   <<Param(last'.name, AnariAny(last'.type, last'.value))>>
              /\ Others(m_params', last'.name) = Others(m_params, last'.name)
        /\ \A n \in Params.names :
             (last'.kind # "removeAllParams" /\ last'.name # n)
             => Named(m_params', n) = Named(m_params, n)]_vars

\* setParam on "a" was called when "a" had an entry already, and "b", set
\* in between, has one too.
C24_Witness ==
  /\ nreq >= 3
  /\ last.kind = "setParam" /\ last.name = "a"
  /\ Len(m_params) = 2
  /\ m_params[1] = Param("a", AnariAny(last.type, last.value))
  /\ m_params[2].first = "b"
  /\ m_params[2].second # AnariAnyEmpty


\* The methods of a ParameterizedObject that only read it.
ReadKinds ==
  {"hasParam", "hasParamType", "getParam", "getParamString", "getParamDirect"}

C25_PostedEventuallyWrittenOnce ==
  /\ [](/\ Len(wire) + Len(queue) = Len(posted)
        /\ \A i \in 1..Len(wire) : wire[i].msg = posted[i])
  /\ \A i \in 1..MaxOutboundRequests :
       (Len(posted) >= i)
       ~> (stopped \/ (Len(wire) >= i /\ wire[i].msg = posted[i]))

\* Two responses were posted and both are written, with no channel error.
C25_Witness ==
  /\ ~stopped
  /\ Len(posted) >= 2
  /\ queue = <<>>
  /\ WireMsgs = posted


\* C26: every response is written on the connection on which its request was
\* received, also when a second connection is accepted between the post of
\* the response and the execution of its send-task.
C26_WrittenOnRequestConnection ==
  \A i \in 1..Len(wire) : wire[i].conn = wire[i].msg.from


\* The calls, made one after the other by a backend that has the arrays m
\* mapped, unmap only mapped arrays and map only arrays that are not mapped.
RECURSIVE wellPaired(_, _)
wellPaired(m, calls) ==
  IF calls = <<>> THEN TRUE
  ELSE LET c == Head(calls)
       IN /\ c.fn = "anariMapArray" => c.obj \notin m
          /\ c.fn = "anariUnmapArray" => c.obj \in m
          /\ wellPaired(afterCall(m, c), Tail(calls))

\* C27: whatever the sequence of NewArray, MapArray and UnmapArray requests on
\* an array, the backend is never asked to unmap an array that is not mapped
\* nor to map an array that is mapped; an UnmapArray with no MapArray before
\* it and two MapArray in a row are such sequences.
C27_MapUnmapPaired ==
  [][(/\ nreq' = nreq + 1
      /\ last'.kind \in {"NewArray", "MapArray", "UnmapArray"}
      /\ last'.kind = "NewArray" \/ ValidArray(last'.dev, last'.obj))
     => wellPaired(mapped, last'.calls)]_vars


\* C28: SetParam with an object-typed parameter resolves the value handle in
\* the object table of the device without reading at or behind its end: the
\* reference it passes to the backend is the one stored in the table for a
\* handle in range (null in a gap), and for any other handle the request is
\* dropped or the reference is null.
C28_ValueHandleInTable ==
  [][(/\ nreq' = nreq + 1
      /\ last'.kind = "SetParam"
      /\ last'.calls # <<>>
      /\ isObject(last'.calls[1].arg.type))
     => LET table == At(resourceManager.serverObjects, last'.dev)
        IN last'.calls[1].arg.object
             \in {NULL} \cup {table[i].handle : i \in 1..Len(table)}]_vars

\* width * height * sizeOf(type) as a natural number, in 12 bytes: no product
\* of two 32-bit numbers and a pixel size needs more.
productSize(m) ==
  mul(mul(uint32_t(m.width), uint32_t(m.height), 8),
      size_t(sizeOf(m.type)), 12)

IsChannel(msg) == msg.type \in {"ChannelColor", "ChannelDepth"}

\* C30: for every width and height that anariMapFrame returns and every known
\* pixel type, the byte count that decides whether the channel is posted and
\* that sizes its raw payload is the product width * height * sizeOf(type) of
\* the natural numbers: width * height does not wrap around modulo 2^32.
C30_ByteCountIsProduct ==
  \A i \in 1..Len(posted) :
    IsChannel(posted[i])
    => widen(posted[i].data.size, 12) = productSize(posted[i].data)
====
